---- MODULE Spec2Model ----
(***************************************************************************)
(* Model of host::DesktopSessionManager                                    *)
(* (source/host/desktop_session_manager.cc): the session-attachment state  *)
(* machine, its single-shot attach timer, the IPC server it owns, the      *)
(* session objects it creates and retires, and the proxy it binds them to. *)
(*                                                                         *)
(* Every handler of the class is a pure operator on a record of the        *)
(* object's fields (attachSession, dettachSession, onNewConnection,        *)
(* onErrorOccurred); the actions apply these operators to the variables.   *)
(***************************************************************************)
EXTENDS Integers, Sequences, FiniteSets, TLC

\* ------------------------------------------------------------------ bounds
\* Number of session objects (Fake or Ipc) one behaviour may construct.
MaxSessions == 2
\* Number of channel identifiers one behaviour may generate.
MaxChannels == 2
\* Number of clock ticks that make up the one-minute timer period.
TimerTicks == 1
\* Number of onDesktopSessionStarted notifications the delegate records.
MaxStarted == 1

\* --------------------------------------------------------------- constants
\* enum class State of DesktopSessionManager.
States == {"Stopped", "Starting", "Stopping", "Detached", "Attached"}

\* DesktopSessionProcess::filePath(): the expected worker executable.
FilePath == "desktop_agent.exe"

\* Peer executable paths a connecting channel may report.
Paths == {"desktop_agent.exe", "DESKTOP_AGENT.EXE", "intruder.exe"}

\* A null unique_ptr / a null raw pointer.
Null == 0

VARIABLES
    state_,                 \* State state_
    session_,               \* std::unique_ptr<DesktopSession> session_ (object id or Null)
    session_proxy_,         \* the DesktopSession* held by *session_proxy_ (object id or Null)
    server_,                \* std::unique_ptr<base::IpcServer> server_ (channel id or Null)
    session_attach_timer_,  \* base::WaitableTimer: [active, left]
    heap,                   \* every session object constructed so far, by object id
    listening,              \* channel ids on which an IpcServer is accepting connections
    channels,               \* number of identifiers IpcServer::createUniqueId has produced
    delegate_started,       \* onDesktopSessionStarted calls received by delegate_
    alive,                  \* FALSE once ~DesktopSessionManager has run
    errors,                 \* ghost: runs of the error path in the current attach attempt
    attempt,                \* ghost: fate of the attach attempt begun from Stopped
    started_at_attach,      \* ghost: delegate_started when that attempt began
    rejected,               \* ghost: a connection was rejected during that attempt
    spawned,                \* channel ids handed to a worker process that was created
    accepted_via,           \* ghost: channel id of the endpoint of the last accepted connection
    stale_timeout,          \* a timeout callback queued before the timer was stopped
    last,                   \* ghost: the operation that produced this state
    wallpaper_,             \* DesktopEnvironment: bool wallpaper_
    font_smoothing_,        \* DesktopEnvironment: bool font_smoothing_
    effects_,               \* DesktopEnvironment: bool effects_
    disabled,               \* desktop features of the interactive user now switched off
    env_last                \* ghost: the last setter call and the calls it made

vars == <<state_, session_, session_proxy_, server_, session_attach_timer_, heap,
          listening, channels, delegate_started, alive, errors, attempt,
          started_at_attach, rejected, spawned, accepted_via, stale_timeout, last,
          wallpaper_, font_smoothing_, effects_, disabled, env_last>>

\* The fields of desktop::DesktopEnvironment and the desktop it acts on.
envvars == <<wallpaper_, font_smoothing_, effects_, disabled, env_last>>

\* ------------------------------------------------------- the object record
\* The fields the handlers read and write, gathered in one record.
Cur ==
    [state |-> state_, session |-> session_, proxy |-> session_proxy_,
     server |-> server_, timer |-> session_attach_timer_, heap |-> heap,
     listening |-> listening, channels |-> channels, spawned |-> spawned,
     errors |-> errors]

Apply(n) ==
    /\ state_' = n.state
    /\ session_' = n.session
    /\ session_proxy_' = n.proxy
    /\ server_' = n.server
    /\ session_attach_timer_' = n.timer
    /\ heap' = n.heap
    /\ listening' = n.listening
    /\ channels' = n.channels
    /\ spawned' = n.spawned
    /\ errors' = n.errors

\* ------------------------------------------------------------------ timer
\* WaitableTimer::start(std::chrono::minutes(1), callback)
TimerStart(s) == [s EXCEPT !.timer = [active |-> TRUE, left |-> TimerTicks]]

\* WaitableTimer::stop()
TimerStop(s) == [s EXCEPT !.timer = [active |-> FALSE, left |-> 0]]

\* ------------------------------------------------------------------ proxy
\* DesktopSessionProxy::attachAndStart(session_.get())
attachAndStart(s, id) == [s EXCEPT !.proxy = id]

\* DesktopSessionProxy::stopAndDettach()
stopAndDettach(s) == [s EXCEPT !.proxy = Null]

\* ---------------------------------------------------------- session objects
\* Lifetime of a session object:
\*   "owned"        held by session_
\*   "delete_soon"  handed to task_runner_->deleteSoon, not yet deleted
\*   "deleted"      deleted by the task runner in a later task
\*   "inline"       destroyed synchronously inside a handler
Lives == {"owned", "delete_soon", "deleted", "inline"}

SetLife(h, id, life) == [h EXCEPT ![id].life = life]

\* task_runner_->deleteSoon(std::move(session_))
deleteSoonSession(s) ==
    IF s.session = Null THEN s
    ELSE [s EXCEPT !.heap = SetLife(@, s.session, "delete_soon"), !.session = Null]

\* session_ = std::make_unique<...>(...): unique_ptr move assignment. The new
\* object is constructed first, then the object session_ held is destroyed.
assignSession(s, kind, peer) ==
    LET h1 == Append(s.heap, [kind |-> kind, peer |-> peer, life |-> "owned"])
        h2 == IF s.session = Null THEN h1 ELSE SetLife(h1, s.session, "inline")
    IN [s EXCEPT !.heap = h2, !.session = Len(h1)]

\* server_ = std::make_unique<base::IpcServer>(): the server object server_
\* held is destroyed, which closes its endpoint.
assignServer(s, id) ==
    [s EXCEPT !.listening = @ \ {s.server}, !.server = id]

\* ------------------------------------------------------- channel servers
\* base::IpcServer::createUniqueId(): an identifier no earlier call returned.
createUniqueId(s) == [s EXCEPT !.channels = @ + 1]

\* ---------------------------------------------------------------- handlers
\* Variant of dettachSession that constructs the Fake session without binding
\* it to the proxy.
dettachSession_Unbound(s) ==
    IF s.state = "Stopped" \/ s.state = "Detached" THEN s
    ELSE
        LET s1 == IF s.state # "Stopping" THEN [s EXCEPT !.state = "Detached"] ELSE s
            s4 == deleteSoonSession(stopAndDettach(TimerStop(s1)))
        IN  IF s4.state = "Stopping" THEN s4
            ELSE assignSession(TimerStart(s4), "Fake", "")

\* Variant of dettachSession whose early return covers Stopped only, so that
\* a call in Detached tears down and replaces the Fake session again.
dettachSession_Reentrant(s) ==
    IF s.state = "Stopped" THEN s
    ELSE
        LET s1 == IF s.state # "Stopping" THEN [s EXCEPT !.state = "Detached"] ELSE s
            s4 == deleteSoonSession(stopAndDettach(TimerStop(s1)))
        IN  IF s4.state = "Stopping" THEN s4
            ELSE
                LET s6 == assignSession(TimerStart(s4), "Fake", "")
                IN  attachAndStart(s6, s6.session)

\* Variant of dettachSession that does not arm the re-attach timeout.
dettachSession_NoRearm(s) ==
    IF s.state = "Stopped" \/ s.state = "Detached" THEN s
    ELSE
        LET s1 == IF s.state # "Stopping" THEN [s EXCEPT !.state = "Detached"] ELSE s
            s4 == deleteSoonSession(stopAndDettach(TimerStop(s1)))
        IN  IF s4.state = "Stopping" THEN s4
            ELSE
                LET s6 == assignSession(s4, "Fake", "")
                IN  attachAndStart(s6, s6.session)

\* Variant of dettachSession without the return taken in Stopping: the
\* teardown creates and binds a Fake session as a detach does.
dettachSession_FakeOnStopping(s) ==
    IF s.state = "Stopped" \/ s.state = "Detached" THEN s
    ELSE
        LET s1 == IF s.state # "Stopping" THEN [s EXCEPT !.state = "Detached"] ELSE s
            s4 == deleteSoonSession(stopAndDettach(TimerStop(s1)))
            s6 == assignSession(TimerStart(s4), "Fake", "")
        IN  attachAndStart(s6, s6.session)

\* DesktopSessionManager::dettachSession
dettachSession(s) ==
    IF s.state = "Stopped" \/ s.state = "Detached" THEN s
    ELSE
        LET s1 == IF s.state # "Stopping" THEN [s EXCEPT !.state = "Detached"] ELSE s
            s2 == TimerStop(s1)
            s3 == stopAndDettach(s2)
            s4 == deleteSoonSession(s3)
        IN  IF s4.state = "Stopping" THEN s4
            ELSE
                LET s5 == TimerStart(s4)
                    s6 == assignSession(s5, "Fake", "")
                IN  attachAndStart(s6, s6.session)

\* Saturating ghost counter: 0, 1, "more than one".
Bump(n) == IF n < 2 THEN n + 1 ELSE 2

\* Variant of onErrorOccurred that does not set the state after the teardown.
onErrorOccurred_StaysStopping(s) ==
    IF s.state = "Stopped" \/ s.state = "Stopping" THEN s
    ELSE dettachSession([s EXCEPT !.state = "Stopping", !.errors = Bump(@)])

\* DesktopSessionManager::onErrorOccurred
onErrorOccurred(s) ==
    IF s.state = "Stopped" \/ s.state = "Stopping" THEN s
    ELSE
        LET s1 == [s EXCEPT !.state = "Stopping", !.errors = Bump(@)]
            s2 == dettachSession(s1)
        IN  [s2 EXCEPT !.state = "Stopped"]

\* Variant of attachSession that does not arm the attach timeout.
attachSession_NoTimer(s, start_ok, create_ok) ==
    IF s.state = "Attached" THEN s
    ELSE
        LET s2 == createUniqueId([s EXCEPT !.state = "Starting"])
            channel_id == s2.channels
            s3 == assignServer(s2, channel_id)
        IN  IF ~start_ok THEN onErrorOccurred(s3)
            ELSE
                LET s4 == [s3 EXCEPT !.listening = @ \cup {channel_id}]
                IN  IF ~create_ok THEN onErrorOccurred(s4)
                    ELSE [s4 EXCEPT !.spawned = @ \cup {channel_id}]

\* Variant of attachSession without the return taken in Attached.
attachSession_NoGuard(s, start_ok, create_ok) ==
    LET s1 == IF s.state = "Stopped" THEN TimerStart(s) ELSE s
        s2 == createUniqueId([s1 EXCEPT !.state = "Starting"])
        channel_id == s2.channels
        s3 == assignServer(s2, channel_id)
    IN  IF ~start_ok THEN onErrorOccurred(s3)
        ELSE
            LET s4 == [s3 EXCEPT !.listening = @ \cup {channel_id}]
            IN  IF ~create_ok THEN onErrorOccurred(s4)
                ELSE [s4 EXCEPT !.spawned = @ \cup {channel_id}]

\* Variant of attachSession that arms the attach timeout on every call.
attachSession_AlwaysArm(s, start_ok, create_ok) ==
    IF s.state = "Attached" THEN s
    ELSE
        LET s2 == createUniqueId([TimerStart(s) EXCEPT !.state = "Starting"])
            channel_id == s2.channels
            s3 == assignServer(s2, channel_id)
        IN  IF ~start_ok THEN onErrorOccurred(s3)
            ELSE
                LET s4 == [s3 EXCEPT !.listening = @ \cup {channel_id}]
                IN  IF ~create_ok THEN onErrorOccurred(s4)
                    ELSE [s4 EXCEPT !.spawned = @ \cup {channel_id}]

\* Variant of attachSession that replaces server_ without closing the
\* endpoint of the server it held.
attachSession_KeepOldServer(s, start_ok, create_ok) ==
    IF s.state = "Attached" THEN s
    ELSE
        LET s1 == IF s.state = "Stopped" THEN TimerStart(s) ELSE s
            s2 == createUniqueId([s1 EXCEPT !.state = "Starting"])
            channel_id == s2.channels
            s3 == [s2 EXCEPT !.server = channel_id]
        IN  IF ~start_ok THEN onErrorOccurred(s3)
            ELSE
                LET s4 == [s3 EXCEPT !.listening = @ \cup {channel_id}]
                IN  IF ~create_ok THEN onErrorOccurred(s4)
                    ELSE [s4 EXCEPT !.spawned = @ \cup {channel_id}]

\* DesktopSessionManager::attachSession. start_ok is the result of
\* IpcServer::start, create_ok that of DesktopSessionProcess::create.
attachSession(s, start_ok, create_ok) ==
    IF s.state = "Attached" THEN s
    ELSE
        LET s1 == IF s.state = "Stopped" THEN TimerStart(s) ELSE s
            s2 == createUniqueId([s1 EXCEPT !.state = "Starting"])
            channel_id == s2.channels
            s3 == assignServer(s2, channel_id)
        IN  IF ~start_ok THEN onErrorOccurred(s3)
            ELSE
                LET s4 == [s3 EXCEPT !.listening = @ \cup {channel_id}]
                IN  IF ~create_ok THEN onErrorOccurred(s4)
                    ELSE [s4 EXCEPT !.spawned = @ \cup {channel_id}]

\* Variant of onNewConnection that accepts the channel without comparing the
\* peer's executable path.
onNewConnection_Unchecked(s, peer) ==
    LET s1 == TimerStop(s)
        s2 == IF s1.server # Null
              THEN [s1 EXCEPT !.listening = @ \ {s1.server}, !.server = Null]
              ELSE s1
        s3 == assignSession(s2, "Ipc", peer)
        s4 == [s3 EXCEPT !.state = "Attached"]
    IN  attachAndStart(s4, s4.session)

\* Variant of onNewConnection that leaves the channel server listening after
\* it accepted the connection.
onNewConnection_KeepServer(s, peer) ==
    IF FilePath # peer THEN s
    ELSE
        LET s3 == assignSession(TimerStop(s), "Ipc", peer)
            s4 == [s3 EXCEPT !.state = "Attached"]
        IN  attachAndStart(s4, s4.session)

\* Variant of onNewConnection that leaves the attach timer running.
onNewConnection_KeepTimer(s, peer) ==
    IF FilePath # peer THEN s
    ELSE
        LET s2 == IF s.server # Null
                  THEN [s EXCEPT !.listening = @ \ {s.server}, !.server = Null]
                  ELSE s
            s3 == assignSession(s2, "Ipc", peer)
            s4 == [s3 EXCEPT !.state = "Attached"]
        IN  attachAndStart(s4, s4.session)

\* Variant of onNewConnection that treats a connection from an unknown
\* application as a failure of the attach attempt.
onNewConnection_RejectIsError(s, peer) ==
    IF FilePath # peer THEN onErrorOccurred(s)
    ELSE
        LET s1 == TimerStop(s)
            s2 == IF s1.server # Null
                  THEN [s1 EXCEPT !.listening = @ \ {s1.server}, !.server = Null]
                  ELSE s1
            s3 == assignSession(s2, "Ipc", peer)
            s4 == [s3 EXCEPT !.state = "Attached"]
        IN  attachAndStart(s4, s4.session)

\* DesktopSessionManager::onNewConnection. peer is channel->peerFilePath().
onNewConnection(s, peer) ==
    IF FilePath # peer THEN s
    ELSE
        LET s1 == TimerStop(s)
            s2 == IF s1.server # Null
                  THEN [s1 EXCEPT !.listening = @ \ {s1.server}, !.server = Null]
                  ELSE s1
            s3 == assignSession(s2, "Ipc", peer)
            s4 == [s3 EXCEPT !.state = "Attached"]
        IN  attachAndStart(s4, s4.session)

\* ------------------------------------------------------------------- Init
\* DesktopSessionManager::DesktopSessionManager
ManagerInit ==
    /\ state_ = "Stopped"
    /\ session_ = Null
    /\ session_proxy_ = Null
    /\ server_ = Null
    /\ session_attach_timer_ = [active |-> FALSE, left |-> 0]
    /\ heap = << >>
    /\ listening = {}
    /\ channels = 0
    /\ delegate_started = 0
    /\ alive = TRUE
    /\ errors = 0
    /\ attempt = "none"
    /\ started_at_attach = 0
    /\ rejected = FALSE
    /\ spawned = {}
    /\ accepted_via = Null
    /\ stale_timeout = FALSE
    /\ last = [op |-> "ctor", from |-> "Stopped", arg |-> ""]

\* The desktop features DesktopEnvironment can switch off.
Features == {"wallpaper", "font_smoothing", "effects"}

\* The features whose flag is false in the record e.
FalseFlags(e) ==
    {f \in Features :
        \/ f = "wallpaper" /\ ~e.wallpaper
        \/ f = "font_smoothing" /\ ~e.font_smoothing
        \/ f = "effects" /\ ~e.effects}

\* DesktopEnvironment::applyNewSettings: disableWallpaper,
\* disableFontSmoothing, disableEffects for the flags that are false.
applyNewSettings(e) ==
    [e EXCEPT !.disabled = @ \cup FalseFlags(e), !.calls = Append(@, "applyNewSettings")]

\* What a run of revertAll comes to: WTSQueryUserToken fails, the
\* impersonation fails, UpdatePerUserSystemParameters is not found, or the
\* user's settings are reloaded.
RevertOutcomes == {"no_token", "no_impersonation", "no_function", "reverted"}

\* DesktopEnvironment::revertAll
revertAll(e, outcome) ==
    LET e1 == [e EXCEPT !.calls = Append(@, "revertAll"), !.outcome = outcome]
    IN  IF outcome = "no_token" THEN e1
        ELSE IF outcome = "no_impersonation" THEN e1
        ELSE IF outcome = "no_function" THEN e1
        ELSE [e1 EXCEPT !.disabled = {}]

\* DesktopEnvironment::setWallpaper
setWallpaper(e, enable, outcome) ==
    IF e.wallpaper = enable THEN e
    ELSE applyNewSettings(revertAll([e EXCEPT !.wallpaper = enable], outcome))

\* DesktopEnvironment::setFontSmoothing
setFontSmoothing(e, enable, outcome) ==
    IF e.font_smoothing = enable THEN e
    ELSE applyNewSettings(revertAll([e EXCEPT !.font_smoothing = enable], outcome))

\* DesktopEnvironment::setEffects
setEffects(e, enable, outcome) ==
    IF e.effects = enable THEN e
    ELSE applyNewSettings(revertAll([e EXCEPT !.effects = enable], outcome))

\* The DesktopEnvironment object at the entry of a setter: no call made yet.
CurEnv ==
    [wallpaper |-> wallpaper_, font_smoothing |-> font_smoothing_, effects |-> effects_,
     disabled |-> disabled, calls |-> << >>, outcome |-> "none"]

ApplyEnv(op, enable, n) ==
    /\ wallpaper_' = n.wallpaper
    /\ font_smoothing_' = n.font_smoothing
    /\ effects_' = n.effects
    /\ disabled' = n.disabled
    /\ env_last' = [op |-> op, enable |-> enable, changed |-> n # CurEnv,
                    calls |-> n.calls, outcome |-> n.outcome]

\* DesktopEnvironment::DesktopEnvironment with the flags at their defaults:
\* applyNewSettings switches nothing off.
EnvDefault ==
    /\ wallpaper_ = TRUE
    /\ font_smoothing_ = TRUE
    /\ effects_ = TRUE
    /\ disabled = {}
    /\ env_last = [op |-> "ctor", enable |-> TRUE, changed |-> FALSE,
                   calls |-> <<"applyNewSettings">>, outcome |-> "none"]

Init == ManagerInit /\ EnvDefault

\* ---------------------------------------------------------------- actions
\* The timer had expired, with its callback queued on the task runner, when
\* the handler producing n stopped or restarted it: the queued callback is
\* left behind.
Superseded(n) ==
    /\ session_attach_timer_.active
    /\ session_attach_timer_.left = 0
    /\ n.timer # session_attach_timer_

Did(op, arg) ==
    /\ last' = [op |-> op, from |-> state_, arg |-> arg]
    /\ UNCHANGED envvars

\* A call of attachSession by the owner of the controller.
AttachSession ==
    /\ alive
    /\ state_ = "Attached" \/ channels < MaxChannels
    /\ \E start_ok \in BOOLEAN, create_ok \in BOOLEAN :
        LET fresh == state_ = "Stopped"
            s0 == IF fresh THEN [Cur EXCEPT !.errors = 0] ELSE Cur
            n  == attachSession(s0, start_ok, create_ok)
        IN  /\ Apply(n)
            /\ attempt' = IF state_ = "Attached" THEN attempt
                          ELSE IF n.state = "Stopped" THEN "failed"
                          ELSE IF fresh THEN "pending"
                          ELSE attempt
            /\ started_at_attach' = IF fresh THEN delegate_started ELSE started_at_attach
            /\ rejected' = IF fresh THEN FALSE ELSE rejected
            /\ Did("attachSession",
                   IF ~start_ok THEN "start_failed"
                   ELSE IF ~create_ok THEN "create_failed" ELSE "ok")
            /\ stale_timeout' = (stale_timeout \/ Superseded(n))
    /\ UNCHANGED <<delegate_started, alive, accepted_via>>

\* A call of dettachSession by the owner of the controller.
DettachSession ==
    /\ alive
    /\ state_ \in {"Stopped", "Detached"} \/ Len(heap) < MaxSessions
    /\ Apply(dettachSession(Cur))
    /\ stale_timeout' = (stale_timeout \/ Superseded(dettachSession(Cur)))
    /\ attempt' = IF state_ \in {"Stopped", "Detached"} THEN attempt ELSE "detached"
    /\ Did("dettachSession", "")
    /\ UNCHANGED <<delegate_started, alive, started_at_attach, rejected, accepted_via>>

\* The bound session reports that it stopped.
OnDesktopSessionStopped ==
    /\ alive
    /\ session_proxy_ # Null
    /\ state_ \in {"Stopped", "Detached"} \/ Len(heap) < MaxSessions
    /\ Apply(dettachSession(Cur))
    /\ stale_timeout' = (stale_timeout \/ Superseded(dettachSession(Cur)))
    /\ attempt' = IF state_ \in {"Stopped", "Detached"} THEN attempt ELSE "detached"
    /\ Did("onDesktopSessionStopped", "")
    /\ UNCHANGED <<delegate_started, alive, started_at_attach, rejected, accepted_via>>

\* The bound session reports that it started; forwarded to the delegate.
OnDesktopSessionStarted ==
    /\ alive
    /\ session_proxy_ # Null
    /\ delegate_started < MaxStarted
    /\ delegate_started' = delegate_started + 1
    /\ Did("onDesktopSessionStarted", "")
    /\ UNCHANGED <<state_, session_, session_proxy_, server_, session_attach_timer_,
                   heap, listening, channels, alive, errors, attempt, started_at_attach,
                   rejected, spawned, accepted_via, stale_timeout>>

\* The listening IpcServer delivers a connection to its delegate.
OnNewConnection ==
    /\ alive
    /\ listening # {}
    /\ \E peer \in Paths, endpoint \in listening :
        /\ peer = FilePath => Len(heap) < MaxSessions
        /\ accepted_via' = IF peer = FilePath THEN endpoint ELSE accepted_via
        /\ Apply(onNewConnection(Cur, peer))
        /\ stale_timeout' = (stale_timeout \/ Superseded(onNewConnection(Cur, peer)))
        /\ attempt' = IF peer = FilePath THEN "connected" ELSE attempt
        /\ rejected' = (rejected \/ peer # FilePath)
        /\ Did("onNewConnection", peer)
    /\ UNCHANGED <<delegate_started, alive, started_at_attach>>

\* Time passes on the armed timer.
TimerTick ==
    /\ alive
    /\ session_attach_timer_.active
    /\ session_attach_timer_.left > 0
    /\ session_attach_timer_' = [session_attach_timer_ EXCEPT !.left = @ - 1]
    /\ Did("tick", "")
    /\ UNCHANGED <<state_, session_, session_proxy_, server_, heap, listening, channels,
                   delegate_started, alive, errors, attempt, started_at_attach, rejected,
                   spawned, accepted_via, stale_timeout>>

\* Variant of the timeout callbacks that logs and returns.
timeoutCallback_LogOnly(s) == s

\* The timeout callbacks installed by attachSession and dettachSession.
timeoutCallback(s) == onErrorOccurred(s)

\* The single-shot timer expires and runs its callback.
TimerFire ==
    /\ alive
    /\ session_attach_timer_.active
    /\ session_attach_timer_.left = 0
    /\ LET n == timeoutCallback(TimerStop(Cur))
       IN  /\ Apply(n)
           /\ attempt' = IF attempt = "pending" THEN "timedout" ELSE "expired"
    /\ Did("timeout", "")
    /\ UNCHANGED <<delegate_started, alive, started_at_attach, rejected, stale_timeout,
                   accepted_via>>

\* DesktopSessionManager::~DesktopSessionManager, followed by the destruction
\* of the members (server_ closes its endpoint).
Destructor ==
    /\ alive
    /\ LET s1 == [Cur EXCEPT !.state = "Stopping"]
           s2 == dettachSession(s1)
       IN  Apply([s2 EXCEPT !.server = Null, !.listening = {}])
    /\ alive' = FALSE
    /\ stale_timeout' = FALSE
    /\ attempt' = "destroyed"
    /\ Did("destructor", "")
    /\ UNCHANGED <<delegate_started, started_at_attach, rejected, accepted_via>>

\* The task runner runs one deleteSoon task.
DeleteSoonRun ==
    /\ \E id \in DOMAIN heap :
        /\ heap[id].life = "delete_soon"
        /\ heap' = SetLife(heap, id, "deleted")
    /\ Did("deleteSoon", "")
    /\ UNCHANGED <<state_, session_, session_proxy_, server_, session_attach_timer_,
                   listening, channels, delegate_started, alive, errors, attempt,
                   started_at_attach, rejected, spawned, accepted_via, stale_timeout>>

Next ==
    \/ AttachSession
    \/ DettachSession
    \/ OnDesktopSessionStopped
    \/ OnDesktopSessionStarted
    \/ OnNewConnection
    \/ TimerTick
    \/ TimerFire
    \/ Destructor
    \/ DeleteSoonRun

Spec == Init /\ [][Next]_vars

\* A timeout callback that was queued on the task runner before a handler
\* stopped the timer runs after that handler.
StaleTimeout ==
    /\ alive
    /\ stale_timeout
    /\ LET n == timeoutCallback(Cur)
       IN  /\ Apply(n)
           /\ stale_timeout' = Superseded(n)
           /\ attempt' = IF n = Cur THEN attempt ELSE "stale_timeout"
    /\ Did("stale_timeout", "")
    /\ UNCHANGED <<delegate_started, alive, started_at_attach, rejected, accepted_via>>

NextRace == Next \/ StaleTimeout

\* The controller when stopping the timer does not cancel a callback that is
\* already queued.
RaceSpec == Init /\ [][NextRace]_vars

\* The timer runs on the task runner: while it stays armed, time passes and
\* the expired timer runs its callback.
FairSpec == Spec /\ WF_vars(TimerTick) /\ WF_vars(TimerFire)

TypeOK ==
    /\ state_ \in States
    /\ session_ \in 0..Len(heap)
    /\ session_proxy_ \in 0..Len(heap)
    /\ server_ \in 0..channels
    /\ session_attach_timer_.active \in BOOLEAN
    /\ session_attach_timer_.left \in 0..TimerTicks
    /\ \A id \in DOMAIN heap : heap[id].life \in Lives
    /\ listening \subseteq 1..channels
    /\ alive \in BOOLEAN
    /\ errors \in 0..2

\* ----------------------------------------------------- DesktopEnvironment
managervars ==
    <<state_, session_, session_proxy_, server_, session_attach_timer_, heap,
      listening, channels, delegate_started, alive, errors, attempt,
      started_at_attach, rejected, spawned, accepted_via, stale_timeout, last>>

\* DesktopEnvironment::DesktopEnvironment: applyNewSettings on flags of any
\* initial value, on a desktop with nothing switched off.
EnvInit ==
    /\ ManagerInit
    /\ wallpaper_ \in BOOLEAN
    /\ font_smoothing_ \in BOOLEAN
    /\ effects_ \in BOOLEAN
    /\ disabled = FalseFlags([wallpaper |-> wallpaper_, font_smoothing |-> font_smoothing_,
                              effects |-> effects_])
    /\ env_last = [op |-> "ctor", enable |-> TRUE, changed |-> FALSE,
                   calls |-> <<"applyNewSettings">>, outcome |-> "none"]

SetWallpaper ==
    /\ \E enable \in BOOLEAN, outcome \in RevertOutcomes :
        ApplyEnv("setWallpaper", enable, setWallpaper(CurEnv, enable, outcome))
    /\ UNCHANGED managervars

SetFontSmoothing ==
    /\ \E enable \in BOOLEAN, outcome \in RevertOutcomes :
        ApplyEnv("setFontSmoothing", enable, setFontSmoothing(CurEnv, enable, outcome))
    /\ UNCHANGED managervars

SetEffects ==
    /\ \E enable \in BOOLEAN, outcome \in RevertOutcomes :
        ApplyEnv("setEffects", enable, setEffects(CurEnv, enable, outcome))
    /\ UNCHANGED managervars

EnvNext == SetWallpaper \/ SetFontSmoothing \/ SetEffects

EnvSpec == EnvInit /\ [][EnvNext]_vars

\* ------------------------------------------------------------- properties
\* The proxy is bound to the live session object session_ owns.
Bound ==
    /\ session_proxy_ # Null
    /\ session_proxy_ = session_
    /\ heap[session_proxy_].life = "owned"

BoundKind(kind) == Bound /\ heap[session_proxy_].kind = kind

\* C1 (as stated): after every call, whenever the state is not Stopped, the
\* proxy has exactly one bound Session, the state Starting reached from
\* Stopped included.
C1_BoundOutsideStopped ==
    (alive /\ state_ # "Stopped") => Bound

\* C1 (amended): whenever the state is Attached or Detached the proxy has
\* exactly one bound Session, the one session_ owns; in Starting it has the
\* Fake session left by a preceding detach or none at all; in Stopped none.
C1_BoundWhenAttachedOrDetached ==
    alive =>
        /\ state_ \in {"Attached", "Detached"} => Bound
        /\ state_ = "Starting" =>
              /\ session_proxy_ = session_
              /\ (session_ # Null => BoundKind("Fake"))
        /\ state_ = "Stopped" => (session_proxy_ = Null /\ session_ = Null)

\* dettachSession called in Starting has bound a Fake session.
C1_Witness ==
    /\ last.op = "dettachSession"
    /\ last.from = "Starting"
    /\ state_ = "Detached"
    /\ BoundKind("Fake")

\* C2: a connection whose peer path differs from the expected worker path
\* never creates or binds a Session: the bound session is a Fake one or an
\* Ipc one whose peer path matched exactly, Attached is entered only by an
\* onNewConnection whose peer path matched, and a mismatched onNewConnection
\* leaves the state, the session objects and the proxy as they were.
C2_OnlyValidatedPeerBound ==
    /\ [](\A id \in DOMAIN heap : heap[id].kind = "Ipc" => heap[id].peer = FilePath)
    /\ [](session_proxy_ # Null =>
            \/ heap[session_proxy_].kind = "Fake"
            \/ heap[session_proxy_].kind = "Ipc" /\ heap[session_proxy_].peer = FilePath)
    /\ []((state_ = "Attached" /\ last.from # "Attached") =>
            (last.op = "onNewConnection" /\ last.arg = FilePath))
    /\ [][(last'.op = "onNewConnection" /\ last'.arg # FilePath) =>
            /\ heap' = heap
            /\ session_' = session_
            /\ session_proxy_' = session_proxy_
            /\ state_' = state_]_vars

\* A connection from an executable whose path differs only in case was
\* delivered during an attach attempt and nothing was bound.
C2_Witness ==
    /\ last.op = "onNewConnection"
    /\ last.arg = "DESKTOP_AGENT.EXE"
    /\ state_ = "Starting"
    /\ session_proxy_ = Null

\* C3: an attach attempt begun from Stopped that no matching connection
\* completes (mismatched connections may arrive) does not stay pending: unless
\* a matching connection, a detach or the destructor ends it first, the
\* attach timer fires and the controller reaches Stopped, and the delegate
\* has received no onDesktopSessionStarted since the attempt began.
C3_AttachTimeoutStops ==
    /\ (attempt = "pending") ~>
            (state_ = "Stopped" \/ attempt \in {"connected", "detached", "destroyed"})
    /\ [](attempt = "pending" => (state_ = "Starting" /\ session_attach_timer_.active))
    /\ [](attempt = "timedout" =>
            (state_ = "Stopped" /\ delegate_started = started_at_attach))

\* The attach timer fired on an attempt during which a connection from a
\* mismatched path had been rejected.
C3_Witness ==
    /\ attempt = "timedout"
    /\ rejected
    /\ last.op = "timeout"
    /\ last.from = "Starting"
    /\ state_ = "Stopped"

\* Calls the controller has made on delegate_ since the attach attempt began.
\* No handler other than onDesktopSessionStarted and the four data forwarders
\* calls delegate_; the error path makes no call on it.
DelegateCallsInAttempt == delegate_started - started_at_attach

\* C4 (as stated): an attach attempt that times out reports exactly one error
\* notification: the delegate has received exactly one call for the attempt.
C4_OneNotificationPerTimeout ==
    attempt = "timedout" => DelegateCallsInAttempt = 1

\* C4 (amended): an attach attempt that times out takes the error path
\* exactly once (not zero times, not twice), which ends in Stopped with the
\* timer idle, and the delegate receives no call for it.
C4_OneErrorPerTimeout ==
    /\ attempt = "timedout" =>
          /\ errors = 1
          /\ state_ = "Stopped"
          /\ ~session_attach_timer_.active
          /\ DelegateCallsInAttempt = 0
    /\ attempt = "pending" => errors = 0

\* The attach timer has fired and the error path has run.
C4_Witness ==
    /\ attempt = "timedout"
    /\ errors = 1
    /\ ~session_attach_timer_.active

\* C5: dettachSession and onErrorOccurred are idempotent from every reachable
\* state: a second call in a row changes no field of the controller (state,
\* bound session, timer, channel server, session objects created).
C5_Idempotent ==
    /\ dettachSession(dettachSession(Cur)) = dettachSession(Cur)
    /\ onErrorOccurred(onErrorOccurred(Cur)) = onErrorOccurred(Cur)

\* dettachSession has acted on an attached controller; a further call finds
\* the state Detached.
C5_Witness ==
    /\ last.op = "dettachSession"
    /\ last.from = "Attached"
    /\ state_ = "Detached"
    /\ dettachSession(Cur) = Cur

\* C6: when the bound session reports that it stopped while the controller is
\* Attached, the controller is Detached afterwards, the Ipc session is
\* unbound and handed to deleteSoon, a Fake session is bound in the same
\* step, and the timer is armed with a full period; no state with the
\* controller Detached has the proxy unbound.
C6_StoppedWhileAttached ==
    /\ (last.op = "onDesktopSessionStopped" /\ last.from = "Attached") =>
          /\ state_ = "Detached"
          /\ BoundKind("Fake")
          /\ session_attach_timer_ = [active |-> TRUE, left |-> TimerTicks]
          /\ \E id \in DOMAIN heap :
                /\ heap[id].kind = "Ipc"
                /\ heap[id].life = "delete_soon"
                /\ id # session_proxy_
    /\ (alive /\ state_ = "Detached") => (Bound /\ session_attach_timer_.active)

\* The attached session reported that it stopped.
C6_Witness ==
    /\ last.op = "onDesktopSessionStopped"
    /\ last.from = "Attached"
    /\ state_ = "Detached"

NumFake(h) == Cardinality({id \in DOMAIN h : h[id].kind = "Fake"})

\* C7 (as stated): the destructor run in Attached passes through Stopping
\* and ends in Stopped, with the session unbound, the timer cancelled and no
\* Fake session created.
C7_DestructorEndsStopped ==
    [][(last'.op = "destructor" /\ state_ = "Attached") =>
        /\ state_' = "Stopped"
        /\ session_proxy_' = Null
        /\ session_' = Null
        /\ ~session_attach_timer_'.active
        /\ NumFake(heap') = NumFake(heap)]_vars

\* C7 (amended): the destructor run in Attached sets the state to Stopping
\* and leaves it there (nothing sets Stopped), with the session unbound and
\* handed to deleteSoon, the timer cancelled and no Fake session created.
C7_DestructorEndsStopping ==
    /\ [][(last'.op = "destructor" /\ state_ = "Attached") =>
            /\ state_' = "Stopping"
            /\ session_proxy_' = Null
            /\ session_' = Null
            /\ heap'[session_].life = "delete_soon"
            /\ ~session_attach_timer_'.active
            /\ NumFake(heap') = NumFake(heap)]_vars
    /\ [](~alive => (state_ = "Stopping" /\ session_proxy_ = Null))

\* The destructor has run on an attached controller.
C7_Witness ==
    /\ ~alive
    /\ last.op = "destructor"
    /\ last.from = "Attached"

\* C8: once a connection is accepted (Attached) or the attach attempt is
\* abandoned (Stopped), no channel server of the controller is listening.
C8_NoServerAfterUse ==
    (alive /\ state_ \in {"Attached", "Stopped"}) => listening = {}

\* C9: a failed attach attempt (server start failure, spawn failure, attach
\* timeout) leaves the controller Stopped with the timer idle, no Session
\* bound, no listening server, and a following attachSession acts as on a
\* freshly constructed controller.
C9_FailedAttachLeavesNothing ==
    attempt \in {"failed", "timedout"} =>
        /\ state_ = "Stopped"
        /\ ~session_attach_timer_.active
        /\ session_ = Null
        /\ session_proxy_ = Null
        /\ listening = {}
        /\ LET n == attachSession(Cur, TRUE, TRUE)
           IN  /\ n.state = "Starting"
               /\ n.timer = [active |-> TRUE, left |-> TimerTicks]
               /\ n.listening = {n.server}

\* C10: a Session replaced by a newly bound one is never destroyed inside the
\* operation that replaces it, and the proxy never refers to a destroyed
\* Session.
C10_DeferredDestruction ==
    /\ \A id \in DOMAIN heap : heap[id].life # "inline"
    /\ session_proxy_ # Null => heap[session_proxy_].life = "owned"

\* C11: a timeout callback that runs after the controller has reached
\* Attached (it was queued when the timer was stopped) is a no-op: the state
\* stays Attached, the same Session stays bound, and the delegate sees
\* nothing.
C11_StaleTimeoutIsNoOp ==
    (last.op = "stale_timeout" /\ last.from = "Attached") =>
        /\ state_ = "Attached"
        /\ BoundKind("Ipc")
        /\ \A id \in DOMAIN heap : heap[id].kind = "Ipc" => heap[id].life # "delete_soon"

\* C12: every attachSession call that gets past the Attached guard generates
\* a channel identifier no earlier attempt used and starts its server on it;
\* at most one channel server listens, on the latest identifier, so the
\* connection bound as the Session of an attempt arrived on that attempt's
\* identifier and never on an earlier one.
C12_FreshChannelPerAttempt ==
    /\ [][(last'.op = "attachSession" /\ state_ # "Attached") =>
            /\ channels' = channels + 1
            /\ server_' = channels'
            /\ listening' \subseteq {channels'}]_vars
    /\ [](listening \subseteq {channels} /\ listening \subseteq {server_})
    /\ [](state_ = "Attached" => accepted_via = channels)

\* The connection of a second attach attempt was accepted on the second
\* identifier.
C12_Witness ==
    /\ last.op = "onNewConnection"
    /\ state_ = "Attached"
    /\ channels >= 2
    /\ accepted_via = channels

\* C13: when a connection with the matching peer path arrives on an attach
\* attempt begun from Stopped whose spawn succeeded, the state becomes
\* Attached, the attach timer is cancelled, the channel server is stopped and
\* discarded, the proxy is bound to an Ipc session; the started report of
\* that session is then forwarded to the delegate.
C13_MatchingConnectionAttaches ==
    /\ [](last.op = "onNewConnection" /\ last.arg = FilePath =>
            /\ state_ = "Attached"
            /\ ~session_attach_timer_.active
            /\ server_ = Null
            /\ listening = {}
            /\ BoundKind("Ipc")
            /\ heap[session_].peer = FilePath)
    /\ [][(last'.op = "onDesktopSessionStarted" /\ state_ = "Attached") =>
            /\ delegate_started' = delegate_started + 1
            /\ state_' = "Attached"
            /\ session_proxy_' = session_proxy_]_vars

\* The worker of an attempt begun from Stopped connected, and the delegate
\* has received onDesktopSessionStarted from the attached session.
C13_Witness ==
    /\ last.op = "onDesktopSessionStarted"
    /\ last.from = "Attached"
    /\ attempt = "connected"
    /\ accepted_via \in spawned
    /\ BoundKind("Ipc")
    /\ delegate_started = started_at_attach + 1

\* The state the last operation started from and the state it ended in, when
\* they differ.
Moved(from, to) == last.from = from /\ state_ = to

\* C14 (as stated): the state moves only along Stopped -> Starting ->
\* Attached -> Detached -> Stopped, with the error path and the teardown
\* leading to Stopped or Stopping; Attached is entered only from Starting and
\* Detached only from Attached.
C14_CycleOnly ==
    last.from # state_ =>
        \/ Moved("Stopped", "Starting")
        \/ Moved("Starting", "Attached")
        \/ Moved("Attached", "Detached")
        \/ Moved("Detached", "Stopped")
        \/ Moved("Starting", "Stopped")
        \/ Moved("Attached", "Stopped")
        \/ state_ = "Stopping"

\* C14 (amended): the state moves only by these steps: to Starting from
\* Stopped or Detached by attachSession; to Attached from Starting, Detached
\* or Stopped by an accepted onNewConnection; to Detached from Starting or
\* Attached by dettachSession or onDesktopSessionStopped; to Stopped from
\* Starting or Detached by the error path (timeout, failed server start or
\* spawn) and from Attached only by a timeout callback queued before the
\* timer was stopped; to Stopping only by the destructor.
C14_Transitions ==
    last.from # state_ =>
        \/ /\ state_ = "Starting"
           /\ last.from \in {"Stopped", "Detached"}
           /\ last.op = "attachSession"
        \/ /\ state_ = "Attached"
           /\ last.from \in {"Starting", "Detached", "Stopped"}
           /\ last.op = "onNewConnection"
        \/ /\ state_ = "Detached"
           /\ last.from \in {"Starting", "Attached"}
           /\ last.op \in {"dettachSession", "onDesktopSessionStopped"}
        \/ /\ state_ = "Stopped"
           /\ last.from \in {"Starting", "Detached"}
           /\ last.op \in {"timeout", "stale_timeout", "attachSession"}
        \/ /\ state_ = "Stopped"
           /\ last.from = "Attached"
           /\ last.op = "stale_timeout"
        \/ /\ state_ = "Stopping"
           /\ last.op = "destructor"

\* A connection was accepted while the controller was Detached.
C14_Witness ==
    /\ last.op = "onNewConnection"
    /\ last.from = "Detached"
    /\ state_ = "Attached"

\* C15: onNewConnection with a mismatched peer path changes nothing: the
\* state, the timer with its remaining time, the listening channel server and
\* the bound Session stay as they were, so that a connection with the
\* matching path delivered next is accepted.
C15_RejectedConnectionChangesNothing ==
    /\ [][(last'.op = "onNewConnection" /\ last'.arg # FilePath) =>
            UNCHANGED <<state_, session_attach_timer_, server_, listening, session_,
                        session_proxy_, heap, channels, spawned, errors,
                        delegate_started, attempt>>]_vars
    /\ [](last.op = "onNewConnection" /\ last.arg # FilePath =>
            /\ listening # {}
            /\ onNewConnection(Cur, FilePath).state = "Attached")

\* A connection from an unknown application was rejected while the attach
\* timer was running and the server of the attempt is still listening.
C15_Witness ==
    /\ last.op = "onNewConnection"
    /\ last.arg = "intruder.exe"
    /\ attempt = "pending"
    /\ session_attach_timer_.active
    /\ listening = {server_}

\* C16: attachSession called in Attached is a no-op: the state, the bound
\* Session, the timer and the channel server are unchanged, no channel
\* identifier is generated and no worker process is spawned.
C16_AttachWhileAttachedIsNoOp ==
    [][(last'.op = "attachSession" /\ state_ = "Attached") =>
        UNCHANGED <<state_, session_, session_proxy_, heap, session_attach_timer_,
                    server_, listening, channels, spawned, errors, delegate_started>>]_vars

\* attachSession was called on an attached controller.
C16_Witness ==
    /\ last.op = "attachSession"
    /\ last.from = "Attached"
    /\ state_ = "Attached"
    /\ BoundKind("Ipc")

\* C17: between operations of a live controller the single-shot timer has a
\* pending deadline exactly when the state is Starting or Detached; it has
\* none in Stopped or Attached.
C17_TimerPendingIffWaiting ==
    alive =>
        /\ session_attach_timer_.active <=> state_ \in {"Starting", "Detached"}
        /\ ~session_attach_timer_.active => session_attach_timer_.left = 0

\* The timer was cancelled by an accepted connection after part of its
\* period had elapsed.
C17_Witness ==
    /\ last.op = "onNewConnection"
    /\ state_ = "Attached"
    /\ stale_timeout
    /\ ~session_attach_timer_.active

\* C18: attachSession called in Starting or Detached starts a second channel
\* server and spawns a second worker under a new identifier without arming
\* the timer again: the remaining time is unchanged, and afterwards exactly
\* one channel server, the newest, is listening.
C18_ReattachKeepsDeadline ==
    [][(last'.op = "attachSession" /\ state_ \in {"Starting", "Detached"}) =>
        /\ channels' = channels + 1
        /\ last'.arg = "ok" =>
              /\ state_' = "Starting"
              /\ session_attach_timer_' = session_attach_timer_
              /\ listening' = {channels'}
              /\ server_' = channels'
              /\ spawned' = spawned \cup {channels'}
        /\ last'.arg # "ok" =>
              /\ state_' = "Stopped"
              /\ ~session_attach_timer_'.active]_vars

\* A second attachSession was made in Starting after part of the timer
\* period had elapsed, and the remaining time was not restored.
C18_Witness ==
    /\ last.op = "attachSession"
    /\ last.from = "Starting"
    /\ last.arg = "ok"
    /\ channels >= 2
    /\ Cardinality(spawned) >= 2
    /\ session_attach_timer_.active
    /\ session_attach_timer_.left < TimerTicks

\* The features whose flag is false now.
FalseNow ==
    FalseFlags([wallpaper |-> wallpaper_, font_smoothing |-> font_smoothing_,
                effects |-> effects_])

\* C19: a setter called with the flag's current value makes no
\* call, a setter that changes a flag calls revertAll and then
\* applyNewSettings, and after any sequence of setter calls the features
\* switched off are exactly those whose flag is false, also when revertAll
\* returned early.
C19_DisabledEqualsFalseFlags ==
    /\ env_last.op # "ctor" =>
          /\ ~env_last.changed => env_last.calls = << >>
          /\ env_last.changed => env_last.calls = <<"revertAll", "applyNewSettings">>
    /\ disabled = FalseNow

====
